---------------------------- MODULE Spec2Model ----------------------------
(***************************************************************************)
(* Model of routers/retrieve.py: the /retrieve handler get_context and the *)
(* retried embedding call get_embeddings.                                  *)
(*                                                                         *)
(* One request is modelled.  get_context has no await, so a request runs   *)
(* to completion without interleaving; the only nondeterminism is what the *)
(* three remote services answer.  Each action is one remote call together  *)
(* with all the local code that runs until the next remote call.           *)
(***************************************************************************)
EXTENDS Integers, Sequences, FiniteSets, TLC

(* ----------------------------- bounds --------------------------------- *)
MaxBatch == 2        \* longest batch of queries
NumQueries == 2      \* distinct query strings
MaxNs == 11          \* largest number of vectors indexed in the namespace
NumScores == 3       \* distinct relevance scores the reranker hands out

(* ------------------------ program constants --------------------------- *)
StopAfterAttempt == 6    \* stop_after_attempt(6)
TopK == 10               \* top_k=10
TopN == 10               \* top_n=10

VARIABLES
    queries,      \* the form field `queries`
    nsSize,       \* number of vectors indexed under `namespace`
    pc,           \* "embed" | "search" | "rerank" | "done" | "failed"
    qi,           \* 1-based position of the for loop in queries
    attempts,     \* attempts made by the running get_embeddings call
    lastExc,      \* exception raised by its latest attempt, or "none"
    embedding,    \* local `embedding`
    vectors,      \* local `vectors`
    response,     \* local `response`
    returned,     \* what the handler returned to the caller, or NoResult
    error,        \* exception that left the handler, or "none"
    log,          \* what print() wrote, one entry per call
    hist          \* per finished query: the remote answers it was given

vars == <<queries, nsSize, pc, qi, attempts, lastExc, embedding, vectors,
          response, returned, error, log, hist>>

NoResult == "NoResult"
NoEmbedding == 0

Min(a, b) == IF a < b THEN a ELSE b

(* ------------------------ the remote services ------------------------- *)

\* client.embeddings.create(...).data[0].embedding for a query
EmbeddingOf(q) == 400 + q

\* outcomes of one attempt of the embeddings call
EmbedOutcomes == {"ok", "BadRequestError", "RateLimitError"}

\* The vector stored under id v, as ns.query returns it for embedding e.
\* Odd embeddings are nearest to id 1, even ones to the last id.
StoredVector(e, v, size) ==
    [id |-> v,
     vector |-> 300 + v,
     dist |-> IF e % 2 = 1 THEN v ELSE size + 1 - v,
     attributes |-> [text |-> 100 + v, fileID |-> 200 + ((v + 1) \div 2)]]

\* ns.query(vector=e, top_k=k): the n nearest vectors, nearest first
NsQuery(e, size, n) ==
    [j \in 1..n |->
        StoredVector(e, IF e % 2 = 1 THEN j ELSE size + 1 - j, size)]

\* How many vectors the index may answer with: none match, or the k nearest
SearchCounts(size, k) == {0, Min(k, size)}

\* relevance the reranking model gives a document for a query
RelevanceScore(q, text) == (text + q) % NumScores

RerankOrders == {"asc", "desc", "ranked"}

\* How many results the reranker may answer with for n documents: none,
\* half of what was asked for (it filters), or all that was asked for
RerankCounts(n, top_n) == {0, Min(top_n, n) \div 2, Min(top_n, n)}

\* 0-based position of the document the reranking model ranks j-th of docs
\* (by relevance, highest first; earlier document first among equals)
RankedIndex(q, docs, j) ==
    CHOOSE i \in 0..(Len(docs) - 1) :
        Cardinality({k \in 0..(Len(docs) - 1) :
            \/ RelevanceScore(q, docs[k + 1]) > RelevanceScore(q, docs[i + 1])
            \/ /\ RelevanceScore(q, docs[k + 1]) = RelevanceScore(q, docs[i + 1])
               /\ k < i}) = j - 1

\* co.rerank(query=q, documents=docs, top_n, return_documents=True): m
\* results, each naming a document by its 0-based position in docs.  The
\* service picks which documents and in what order: the first m in input
\* order, the last m in reverse input order, or the m most relevant.
CoRerank(q, docs, m, order) ==
    [j \in 1..m |->
        LET index == CASE order = "asc" -> j - 1
                       [] order = "desc" -> Len(docs) - j
                       [] OTHER -> RankedIndex(q, docs, j)
        IN [index |-> index,
            relevance_score |-> RelevanceScore(q, docs[index + 1]),
            document |-> [text |-> docs[index + 1]]]]

(* --------------------------- get_embeddings --------------------------- *)

\* variant: every exception is retried
RetryAlways(exc) == TRUE

\* retry=retry_if_not_exception_type(BadRequestError)
RetryPredicate(exc) == exc # "BadRequestError"

\* variant: the stop condition is one attempt late
StopLate(n) == n > StopAfterAttempt

\* stop=stop_after_attempt(6)
ShouldStop(n) == n >= StopAfterAttempt

(* ----------------------------- get_context ---------------------------- *)

\* docs = [vector.attributes["text"] for vector in vectors]
Docs(vs) == [j \in 1..Len(vs) |-> vs[j].attributes.text]

\* variant: the empty-documents guard is missing
NeverSkip(docs) == FALSE

\* if not docs
SkipRerank(docs) == docs = <<>>

\* variant: the similarity score is read at the mirrored position
RetrievalMixed(vs, result) ==
    [text |-> result.document.text,
     embedding |-> vs[result.index + 1].vector,
     vectorID |-> vs[result.index + 1].id,
     fileID |-> vs[result.index + 1].attributes.fileID,
     cosine_similarity_score |-> vs[Len(vs) - result.index].dist,
     reranker_score |-> result.relevance_score]

\* variant: the search result is read at position 0 whatever result.index is
RetrievalFirstVector(vs, result) ==
    [text |-> result.document.text,
     embedding |-> vs[1].vector,
     vectorID |-> vs[1].id,
     fileID |-> vs[1].attributes.fileID,
     cosine_similarity_score |-> vs[1].dist,
     reranker_score |-> result.relevance_score]

\* Retrieval(...) built for one rerank result
Retrieval(vs, result) ==
    [text |-> result.document.text,
     embedding |-> vs[result.index + 1].vector,
     vectorID |-> vs[result.index + 1].id,
     fileID |-> vs[result.index + 1].attributes.fileID,
     cosine_similarity_score |-> vs[result.index + 1].dist,
     reranker_score |-> result.relevance_score]

\* variant: the loop starts at the second rerank result
JoinSkipFirst(vs, results) ==
    [j \in 1..(Len(results) - 1) |->
        [text |-> results[j + 1].document.text,
         embedding |-> vs[results[j + 1].index + 1].vector,
         vectorID |-> vs[results[j + 1].index + 1].id,
         fileID |-> vs[results[j + 1].index + 1].attributes.fileID,
         cosine_similarity_score |-> vs[results[j + 1].index + 1].dist,
         reranker_score |-> results[j + 1].relevance_score]]

\* for idx, result in enumerate(rerank_results.results): append(Retrieval)
Join(vs, results) == [j \in 1..Len(results) |-> Retrieval(vs, results[j])]

\* list.sort(key=reranker_score, reverse=True): stable, descending
RECURSIVE InsertDesc(_, _)
InsertDesc(x, s) ==
    IF s = <<>> THEN <<x>>
    ELSE IF Head(s).reranker_score >= x.reranker_score
         THEN <<Head(s)>> \o InsertDesc(x, Tail(s))
         ELSE <<x>> \o s

RECURSIVE SortFrom(_, _, _)
SortFrom(chunks, j, acc) ==
    IF j > Len(chunks) THEN acc
    ELSE SortFrom(chunks, j + 1, InsertDesc(chunks[j], acc))

\* variant: the sort is missing
NoSort(chunks) == chunks

SortByRerankerScore(chunks) == SortFrom(chunks, 1, <<>>)

\* the dictionary built for one chunk of the response
ToDict(chunk) ==
    [text |-> chunk.text,
     vectorID |-> chunk.vectorID,
     fileID |-> chunk.fileID,
     cosine_similarity_score |-> chunk.cosine_similarity_score,
     reranker_score |-> chunk.reranker_score]

ToDicts(chunks) == [j \in 1..Len(chunks) |-> ToDict(chunks[j])]

\* variant: the result is inserted at the front
PrependResult(resp, r) == <<r>> \o resp

\* response.append(r)
AppendResult(resp, r) == Append(resp, r)

\* variant: the exception is swallowed and the partial response returned
ReturnPartial(resp) == resp

\* what reaches the caller when an exception leaves the handler
Propagate(resp) == NoResult

\* print(...) runs on the path that reranked, not on the `continue` path
LogAfter(lg, resp, reranked) ==
    IF reranked THEN Append(lg, resp) ELSE lg

Batches == UNION {[1..n -> 1..NumQueries] : n \in 1..MaxBatch}

Init ==
    /\ queries \in Batches
    /\ nsSize \in 0..MaxNs
    /\ pc = "embed"
    /\ qi = 1
    /\ attempts = 0
    /\ lastExc = "none"
    /\ embedding = NoEmbedding
    /\ vectors = <<>>
    /\ response = <<>>
    /\ returned = NoResult
    /\ error = "none"
    /\ log = <<>>
    /\ hist = <<>>

\* an exception leaves get_context
Raise(exc) ==
    /\ pc' = "failed"
    /\ error' = exc
    /\ returned' = Propagate(response)

\* the end of one iteration of `for query in queries`, with result r
\* appended; after the last query the handler returns response
FinishQuery(r, h) ==
    /\ response' = AppendResult(response, r)
    /\ log' = LogAfter(log, response', h.reranked)
    /\ hist' = Append(hist, h)
    /\ error' = error
    /\ IF qi = Len(queries)
       THEN /\ pc' = "done"
            /\ returned' = response'
            /\ qi' = qi
       ELSE /\ pc' = "embed"
            /\ returned' = returned
            /\ qi' = qi + 1

\* One attempt of get_embeddings(query) under the tenacity policy.
EmbedAttempt(outcome) ==
    /\ pc = "embed"
    /\ attempts' = attempts + 1
    /\ IF outcome = "ok"
       THEN /\ embedding' = EmbeddingOf(queries[qi])
            /\ lastExc' = "none"
            /\ pc' = "search"
            /\ UNCHANGED <<error, returned>>
       ELSE /\ lastExc' = outcome
            /\ embedding' = embedding
            /\ IF ~RetryPredicate(outcome)
               THEN Raise(outcome)
               ELSE IF ShouldStop(attempts')
                    THEN Raise("RetryError")
                    ELSE UNCHANGED <<pc, error, returned>>
    /\ UNCHANGED <<queries, nsSize, qi, vectors, response, log, hist>>

\* ns.query(...) answers with n vectors; an empty answer ends the iteration
Search(n) ==
    /\ pc = "search"
    /\ n \in SearchCounts(nsSize, TopK)
    /\ LET vs == NsQuery(embedding, nsSize, n)
       IN /\ vectors' = vs
          /\ IF SkipRerank(Docs(vs))
             THEN FinishQuery(<<>>, [query |-> queries[qi], vectors |-> vs,
                                     reranked |-> FALSE, results |-> <<>>])
             ELSE /\ pc' = "rerank"
                  /\ UNCHANGED <<qi, response, returned, error, log, hist>>
    /\ attempts' = 0
    /\ UNCHANGED <<queries, nsSize, lastExc, embedding>>

\* ns.query(...) raises
SearchFails ==
    /\ pc = "search"
    /\ Raise("SearchError")
    /\ UNCHANGED <<queries, nsSize, qi, attempts, lastExc, embedding, vectors,
                   response, log, hist>>

\* co.rerank(...) answers; join, sort, append, print
Rerank(m, order) ==
    /\ pc = "rerank"
    /\ m \in RerankCounts(Len(vectors), TopN)
    /\ LET results == CoRerank(queries[qi], Docs(vectors), m, order)
           retrieved_chunks == SortByRerankerScore(Join(vectors, results))
       IN FinishQuery(ToDicts(retrieved_chunks),
                      [query |-> queries[qi], vectors |-> vectors,
                       reranked |-> TRUE, results |-> results])
    /\ UNCHANGED <<queries, nsSize, attempts, lastExc, embedding, vectors>>

\* co.rerank(...) raises
RerankFails ==
    /\ pc = "rerank"
    /\ Raise("RerankError")
    /\ UNCHANGED <<queries, nsSize, qi, attempts, lastExc, embedding, vectors,
                   response, log, hist>>

Next ==
    \/ \E outcome \in EmbedOutcomes : EmbedAttempt(outcome)
    \/ \E n \in 0..TopK : Search(n)
    \/ SearchFails
    \/ \E m \in 0..TopN, order \in RerankOrders : Rerank(m, order)
    \/ RerankFails

Spec == Init /\ [][Next]_vars

(* ------------------------------ claims -------------------------------- *)

\* what a finished query's remote answers determine as its result
ResultFor(h) ==
    IF h.vectors = <<>> THEN <<>>
    ELSE ToDicts(SortByRerankerScore(Join(h.vectors, h.results)))

\* the answers recorded in h are answers to calls made for query q
CallsMadeFor(h, q) ==
    /\ h.query = q
    /\ \E n \in SearchCounts(nsSize, TopK) :
          h.vectors = NsQuery(EmbeddingOf(q), nsSize, n)
    /\ IF h.reranked
       THEN \E m \in RerankCounts(Len(h.vectors), TopN), order \in RerankOrders :
                h.results = CoRerank(q, Docs(h.vectors), m, order)
       ELSE h.results = <<>>

\* C1: a batch processed without a remote failure returns one entry per
\* input query, and entry i is the result computed from the embedding,
\* search and rerank calls made for queries[i].
C1_OutputAligned ==
    pc = "done" =>
        /\ Len(returned) = Len(queries)
        /\ Len(hist) = Len(queries)
        /\ \A i \in 1..Len(queries) :
              /\ CallsMadeFor(hist[i], queries[i])
              /\ returned[i] = ResultFor(hist[i])

C1_Witness ==
    /\ pc = "done"
    /\ Len(queries) = 2
    /\ queries[1] # queries[2]
    /\ returned[1] = <<>>
    /\ Len(returned[2]) >= 2

\* C2: in every inner list of the returned value, reranker_score is
\* non-increasing by position, whatever order the reranker answered in.
C2_ScoresNonIncreasing ==
    pc = "done" =>
        \A i \in 1..Len(returned) :
            \A j \in 1..(Len(returned[i]) - 1) :
                returned[i][j].reranker_score >= returned[i][j + 1].reranker_score

C2_Witness ==
    /\ pc = "done"
    /\ \E i \in 1..Len(returned) :
          /\ Len(returned[i]) >= 3
          /\ \E j \in 1..(Len(hist[i].results) - 1) :
                hist[i].results[j].relevance_score
                    < hist[i].results[j + 1].relevance_score

\* C3: a query whose vector search answers with zero results never reaches
\* the reranking client, its result is the empty list, and the loop goes on
\* to the next query (or returns, after the last one).
C3_EmptySearchSkipsRerank ==
    \A i \in 1..Len(hist) :
        hist[i].vectors = <<>> =>
            /\ ~hist[i].reranked
            /\ response[i] = <<>>
            /\ IF i < Len(queries) THEN qi > i ELSE pc = "done"

C3_Witness ==
    /\ Len(hist) = 2
    /\ hist[1].vectors = <<>>
    /\ ~hist[1].reranked
    /\ hist[2].reranked
    /\ response[2] # <<>>

C5_AttemptsBounded ==
    /\ attempts <= 6
    /\ pc = "embed" => attempts < 6
    /\ pc = "search" => /\ attempts \in 1..6
                        /\ embedding = EmbeddingOf(queries[qi])
    /\ (attempts = 6 /\ lastExc = "RateLimitError") =>
            /\ pc = "failed"
            /\ error = "RetryError"
            /\ returned = NoResult

C5_Witness ==
    /\ attempts = 6
    /\ lastExc = "RateLimitError"
    /\ pc = "failed"
    /\ error = "RetryError"

\* C6: when a remote call fails unrecoverably the handler returns no
\* result list; results already computed for earlier queries are dropped.
C6_FailureReturnsNothing ==
    pc = "failed" => returned = NoResult /\ error # "none"

C6_Witness ==
    /\ pc = "failed"
    /\ error = "RerankError"
    /\ Len(response) >= 1
    /\ response[1] # <<>>

\* C7: a query's result has exactly as many chunks as the reranker returned
\* results, at most 10, and at most the number of search candidates.
C7_ChunkCount ==
    \A i \in 1..Len(hist) :
        /\ Len(response[i]) = Len(hist[i].results)
        /\ Len(response[i]) <= 10
        /\ Len(response[i]) <= Len(hist[i].vectors)

C7_Witness ==
    /\ nsSize > 10
    /\ \E i \in 1..Len(hist) :
          /\ Len(hist[i].vectors) = 10
          /\ Len(response[i]) = 10
    /\ \E i \in 1..Len(hist) :
          /\ Len(response[i]) > 0
          /\ Len(response[i]) < Len(hist[i].vectors)

\* C8: within one query's result list no two chunks carry the same vectorID.
C8_DistinctVectorIDs ==
    \A i \in 1..Len(response) :
        \A j, k \in 1..Len(response[i]) :
            j # k => response[i][j].vectorID # response[i][k].vectorID

C8_Witness ==
    /\ pc = "done"
    /\ \E i \in 1..Len(returned) : Len(returned[i]) >= 3

\* C9: once the batch is done, every query's final result list, an empty
\* one included, has been written to the log.
C9_EveryResultLogged ==
    pc = "done" =>
        \A i \in 1..Len(queries) :
            \E k \in 1..Len(log) :
                /\ Len(log[k]) >= i
                /\ log[k][i] = returned[i]

\* C10: every emitted chunk joins one rerank result with the search result
\* at that result's index: identifiers and similarity score from the search
\* candidate, relevance score and text from the rerank result.
C10_JoinByIndex ==
    \A i \in 1..Len(hist) :
        \A c \in 1..Len(response[i]) :
            \E j \in 1..Len(hist[i].results) :
                LET r == hist[i].results[j]
                    v == hist[i].vectors[r.index + 1]
                IN response[i][c] =
                     [text |-> r.document.text,
                      vectorID |-> v.id,
                      fileID |-> v.attributes.fileID,
                      cosine_similarity_score |-> v.dist,
                      reranker_score |-> r.relevance_score]

C10_Witness ==
    \E i \in 1..Len(hist) :
        /\ Len(response[i]) >= 2
        /\ \E c \in 1..Len(response[i]) :
              response[i][c].vectorID # hist[i].vectors[c].id

TypeOK ==
    /\ pc \in {"embed", "search", "rerank", "done", "failed"}
    /\ qi \in 1..Len(queries)
    /\ attempts \in 0..StopAfterAttempt
=============================================================================
